---- MODULE Spec2Model ----
(***************************************************************************)
(* Model of src/TP10/apple_mps.py: the module-level availability guard     *)
(* (lines 25-33) and benchmark_mps (lines 1-23).  One action per source    *)
(* statement; pc values are the source line numbers.  The environment is   *)
(* the wall clock read by time.time(), the accelerator's command queue     *)
(* and the failures a torch call can raise.                                *)
(***************************************************************************)
EXTENDS Integers, Sequences, FiniteSets

VARIABLES pc, available, size, warmpup, mps_device, gen,
          TENSOR_A_CPU, TENSOR_B_CPU, TENSOR_A_MPS, TENSOR_B_MPS,
          i, start_time, output, clock, mpsQueue,
          count, window, failedAt

vars == <<pc, available, size, warmpup, mps_device, gen,
          TENSOR_A_CPU, TENSOR_B_CPU, TENSOR_A_MPS, TENSOR_B_MPS,
          i, start_time, output, clock, mpsQueue,
          count, window, failedAt>>

tensors == <<TENSOR_A_CPU, TENSOR_B_CPU, TENSOR_A_MPS, TENSOR_B_MPS>>

(* ---------------- bounds ---------------- *)
\* largest matrix side the model draws for `size` (the default 10000 is
\* outside the bound; the code treats every positive size alike)
MaxSize == 2
\* largest wall-clock reading
MaxClock == 2

(* ---------------- program constants ---------------- *)
SEED == 1234
WarmupIters == 100
WarmupDim == 500

\* modulus of the generator's output; keeps every product below 2^31
GenModulus == 65537

None == [rows |-> 0, cols |-> 0, data |-> <<>>, device |-> "none"]

(* ---------------- the pseudo-random generator ---------------- *)
\* torch.manual_seed(s): the generator restarts its stream for seed s
ManualSeed(s) == [seed |-> s, offset |-> 0]

\* k-th output of the stream of seed s: a deterministic function of both
RandValue(s, k) ==
    (((s % GenModulus) * 75 + (k % GenModulus) * 74 + 1) * 75) % GenModulus

\* torch.rand(r, c): r*c consecutive outputs, row-major, in host memory
Rand(g, r, c) ==
    [rows |-> r, cols |-> c,
     data |-> [k \in 1..(r * c) |-> RandValue(g.seed, g.offset + k)],
     device |-> "cpu"]

\* the generator after torch.rand(r, c)
Advance(g, r, c) == [g EXCEPT !.offset = g.offset + r * c]

\* tensor.to(d): same values, resident on device d
To(t, d) == [t EXCEPT !.device = d]

(* ---------------- output lines ---------------- *)
Line(text) == [text |-> text, secs |-> <<>>]
Duration(label, d) == [text |-> label, secs |-> <<d>>]

FoundLine == Line("MPS device found!")
DeviceLine(d) == Line("MPS device:  " \o d)
BenchLine == Line("Benchmarking...")
NotFoundLine == Line("MPS device not found.")
CPULabel == "CPU : --- %s seconds ---"
MPSLabel == "MPS : --- %s seconds ---"

Bump(f, n) == [count EXCEPT ![f] = @ + n]

\* operations executed between a start-timestamp read and the next end read
Note(op) == IF window.open THEN [window EXCEPT !.ops = Append(@, op)] ELSE window

(* ---------------- initial state: just after `import torch` (line 25) ---------------- *)
Init ==
    /\ pc = "L26"
    /\ available \in BOOLEAN
    /\ size \in 1..MaxSize
    /\ warmpup \in BOOLEAN
    /\ mps_device = "unset"
    /\ gen = [seed |-> 0, offset |-> 0]
    /\ TENSOR_A_CPU = None /\ TENSOR_B_CPU = None
    /\ TENSOR_A_MPS = None /\ TENSOR_B_MPS = None
    /\ i = 0
    /\ start_time = 0
    /\ output = <<>>
    /\ clock \in 0..MaxClock
    /\ mpsQueue = <<>>
    /\ count = [seed |-> 0, rand |-> 0, to |-> 0, warm |-> 0,
                time |-> 0, mm_cpu |-> 0, mm_mps |-> 0]
    /\ window = [open |-> FALSE, ops |-> <<>>]
    /\ failedAt = "none"

(* ---------------- module level, lines 26-33 ---------------- *)
\* if torch.backends.mps.is_available(): ... else: ...
BranchAlwaysTaken(avail) == "L27"

BranchTarget(avail) == IF avail THEN "L27" ELSE "L33"

L26 ==
    /\ pc = "L26"
    /\ pc' = BranchTarget(available)
    /\ UNCHANGED <<available, size, warmpup, mps_device, gen, tensors, i,
                   start_time, output, clock, mpsQueue, count, window, failedAt>>

\* mps_device = torch.device("mps")
L27 ==
    /\ pc = "L27"
    /\ mps_device' = "mps"
    /\ pc' = "L28"
    /\ UNCHANGED <<available, size, warmpup, gen, tensors, i,
                   start_time, output, clock, mpsQueue, count, window, failedAt>>

\* control passes from one statement to another and nothing else happens
Jump(from, to) ==
    /\ pc = from
    /\ pc' = to
    /\ UNCHANGED <<available, size, warmpup, mps_device, gen, tensors, i,
                   start_time, output, clock, mpsQueue, count, window, failedAt>>

\* print(line)
Emit(from, to, line) ==
    /\ pc = from
    /\ output' = Append(output, line)
    /\ pc' = to
    /\ UNCHANGED <<available, size, warmpup, mps_device, gen, tensors, i,
                   start_time, clock, mpsQueue, count, window, failedAt>>

L28 == Emit("L28", "L29", FoundLine)
L29 == Emit("L29", "L30", DeviceLine(mps_device))
L30Silent == Jump("L30", "L31")

L30 == Emit("L30", "L31", BenchLine)
L33 == Emit("L33", "done", NotFoundLine)

\* benchmark_mps(...): enter the routine
L31 ==
    /\ pc = "L31"
    /\ pc' = "L4"
    /\ UNCHANGED <<available, size, warmpup, mps_device, gen, tensors, i,
                   start_time, output, clock, mpsQueue, count, window, failedAt>>

(* ---------------- benchmark_mps, lines 4-10: seeding and allocation ---------------- *)
\* torch.manual_seed(1234)
Seeding(from, to) ==
    /\ pc = from
    /\ gen' = ManualSeed(SEED)
    /\ count' = Bump("seed", 1)
    /\ window' = Note("seed")
    /\ pc' = to
    /\ UNCHANGED <<available, size, warmpup, mps_device, tensors, i,
                   start_time, output, clock, mpsQueue, failedAt>>

L4 == Seeding("L4", "L5")

\* TENSOR_A_CPU = torch.rand(size, size)
L5 ==
    /\ pc = "L5"
    /\ TENSOR_A_CPU' = Rand(gen, size, size)
    /\ gen' = Advance(gen, size, size)
    /\ count' = Bump("rand", 1)
    /\ window' = Note("rand")
    /\ pc' = "L6"
    /\ UNCHANGED <<available, size, warmpup, mps_device, TENSOR_B_CPU,
                   TENSOR_A_MPS, TENSOR_B_MPS, i, start_time, output, clock,
                   mpsQueue, failedAt>>

\* TENSOR_B_CPU = torch.rand(size, size)
L6 ==
    /\ pc = "L6"
    /\ TENSOR_B_CPU' = Rand(gen, size, size)
    /\ gen' = Advance(gen, size, size)
    /\ count' = Bump("rand", 1)
    /\ window' = Note("rand")
    /\ pc' = "L8"
    /\ UNCHANGED <<available, size, warmpup, mps_device, TENSOR_A_CPU,
                   TENSOR_A_MPS, TENSOR_B_MPS, i, start_time, output, clock,
                   mpsQueue, failedAt>>

\* torch.manual_seed(1234), second time
L8Skip == Jump("L8", "L9")

L8 == Seeding("L8", "L9")

\* TENSOR_A_MPS = torch.rand(size, size).to('mps')
L9 ==
    /\ pc = "L9"
    /\ TENSOR_A_MPS' = To(Rand(gen, size, size), "mps")
    /\ gen' = Advance(gen, size, size)
    /\ count' = [count EXCEPT !.rand = @ + 1, !.to = @ + 1]
    /\ window' = Note("rand_to")
    /\ pc' = "L10"
    /\ UNCHANGED <<available, size, warmpup, mps_device, TENSOR_A_CPU,
                   TENSOR_B_CPU, TENSOR_B_MPS, i, start_time, output, clock,
                   mpsQueue, failedAt>>

\* TENSOR_B_MPS = torch.rand(size, size).to('mps')
L10 ==
    /\ pc = "L10"
    /\ TENSOR_B_MPS' = To(Rand(gen, size, size), "mps")
    /\ gen' = Advance(gen, size, size)
    /\ count' = [count EXCEPT !.rand = @ + 1, !.to = @ + 1]
    /\ window' = Note("rand_to")
    /\ pc' = "L13"
    /\ UNCHANGED <<available, size, warmpup, mps_device, TENSOR_A_CPU,
                   TENSOR_B_CPU, TENSOR_A_MPS, i, start_time, output, clock,
                   mpsQueue, failedAt>>

(* ---------------- lines 13-15: warm-up ---------------- *)
\* if warmpup:
WarmupFlagIgnored(flag) == "L14"

\* the timed section nested under the flag: without warm-up the routine returns
WarmupRequired(flag) == IF flag THEN "L14" ELSE "done"

WarmupTarget(flag) == IF flag THEN "L14" ELSE "L17"

L13 ==
    /\ pc = "L13"
    /\ pc' = WarmupTarget(warmpup)
    /\ UNCHANGED <<available, size, warmpup, mps_device, gen, tensors, i,
                   start_time, output, clock, mpsQueue, count, window, failedAt>>

\* for _ in range(100): i counts the iterations already run
L14 ==
    /\ pc = "L14"
    /\ pc' = IF i < WarmupIters THEN "L15" ELSE "L17"
    /\ UNCHANGED <<available, size, warmpup, mps_device, gen, tensors, i,
                   start_time, output, clock, mpsQueue, count, window, failedAt>>

\* torch.matmul(torch.rand(500,500).to('mps'), torch.rand(500,500).to('mps'))
\* Two fresh matrices are drawn and moved, the product is queued on the
\* accelerator, and neither the operands nor the product are bound to a name.
WarmupBody(next_i) ==
    /\ pc = "L15"
    /\ gen' = Advance(Advance(gen, WarmupDim, WarmupDim), WarmupDim, WarmupDim)
    /\ count' = [count EXCEPT !.rand = @ + 2, !.to = @ + 2, !.warm = @ + 1]
    /\ window' = Note("warmup")
    /\ mpsQueue' = Append(mpsQueue, "warmup")
    /\ i' = next_i
    /\ pc' = "L14"
    /\ UNCHANGED <<available, size, warmpup, mps_device, tensors,
                   start_time, output, clock, failedAt>>

L15 == WarmupBody(i + 1)

(* ---------------- lines 17-23: the two timed multiplications ---------------- *)
\* start_time = time.time()
StartTimer(from, to) ==
    /\ pc = from
    /\ start_time' = clock
    /\ count' = Bump("time", 1)
    /\ window' = [open |-> TRUE, ops |-> <<>>]
    /\ pc' = to
    /\ UNCHANGED <<available, size, warmpup, mps_device, gen, tensors, i,
                   output, clock, mpsQueue, failedAt>>

\* print("<label>" % (time.time() - start_time))
PrintElapsed(from, to, label) ==
    /\ pc = from
    /\ output' = Append(output, Duration(label, clock - start_time))
    /\ count' = Bump("time", 1)
    /\ window' = [window EXCEPT !.open = FALSE]
    /\ pc' = to
    /\ UNCHANGED <<available, size, warmpup, mps_device, gen, tensors, i,
                   start_time, clock, mpsQueue, failedAt>>

L17 == StartTimer("L17", "L18")

\* torch.matmul(TENSOR_A_CPU, TENSOR_B_CPU): runs to completion on the host;
\* the product is not bound to a name
L18 ==
    /\ pc = "L18"
    /\ count' = Bump("mm_cpu", 1)
    /\ window' = Note("matmul_cpu")
    /\ pc' = "L19"
    /\ UNCHANGED <<available, size, warmpup, mps_device, gen, tensors, i,
                   start_time, output, clock, mpsQueue, failedAt>>

L19Mislabelled == PrintElapsed("L19", "L21", MPSLabel)

L19 == PrintElapsed("L19", "L21", CPULabel)

L21 == StartTimer("L21", "L22")

\* torch.matmul(TENSOR_A_MPS, TENSOR_B_MPS): the call queues the product on
\* the accelerator and returns
L22WithTransfer ==
    /\ pc = "L22"
    /\ count' = [count EXCEPT !.to = @ + 2, !.mm_mps = @ + 1]
    /\ window' = [window EXCEPT !.ops = @ \o <<"to", "to", "matmul_mps">>]
    /\ mpsQueue' = Append(mpsQueue, "bench")
    /\ pc' = "L23"
    /\ UNCHANGED <<available, size, warmpup, mps_device, gen, tensors, i,
                   start_time, output, clock, failedAt>>

L22 ==
    /\ pc = "L22"
    /\ count' = Bump("mm_mps", 1)
    /\ window' = Note("matmul_mps")
    /\ mpsQueue' = Append(mpsQueue, "bench")
    /\ pc' = "L23"
    /\ UNCHANGED <<available, size, warmpup, mps_device, gen, tensors, i,
                   start_time, output, clock, failedAt>>

\* a variant that waits for the accelerator to drain before reading the clock
L23Synchronized == mpsQueue = <<>> /\ PrintElapsed("L23", "done", MPSLabel)

L23 == PrintElapsed("L23", "done", MPSLabel)

(* ---------------- failures ---------------- *)
\* the statements whose torch call can raise (allocation failure,
\* out of memory, operation rejected by the device)
Fallible == {"L5", "L6", "L9", "L10", "L15", "L18", "L22"}

\* There is no try/except anywhere in the file: an exception raised by a
\* statement ends the process at that statement.
Raise(target) ==
    /\ pc \in Fallible
    /\ failedAt' = pc
    /\ pc' = target
    /\ UNCHANGED <<available, size, warmpup, mps_device, gen, tensors, i,
                   start_time, output, clock, mpsQueue, count, window>>

FailSwallowed == Raise("L17")

Fail == Raise("crashed")

(* ---------------- environment ---------------- *)
\* the wall clock moves forward ...
ClockAdvance ==
    /\ clock < MaxClock
    /\ clock' = clock + 1
    /\ UNCHANGED <<pc, available, size, warmpup, mps_device, gen, tensors, i,
                   start_time, output, mpsQueue, count, window, failedAt>>

\* ... and, being the system's wall clock, can be set back (NTP step,
\* manual adjustment): time.time() is not monotonic
ClockSetBack ==
    /\ clock > 0
    /\ clock' \in 0..(clock - 1)
    /\ UNCHANGED <<pc, available, size, warmpup, mps_device, gen, tensors, i,
                   start_time, output, mpsQueue, count, window, failedAt>>

\* the accelerator finishes the oldest queued operation
DeviceComplete ==
    /\ mpsQueue # <<>>
    /\ mpsQueue' = Tail(mpsQueue)
    /\ UNCHANGED <<pc, available, size, warmpup, mps_device, gen, tensors, i,
                   start_time, output, clock, count, window, failedAt>>

(* ---------------- specification ---------------- *)
\* the statements of the script, each completing normally
Step ==
    \/ L26 \/ L27 \/ L28 \/ L29 \/ L30 \/ L31 \/ L33
    \/ L4 \/ L5 \/ L6 \/ L8 \/ L9 \/ L10
    \/ L13 \/ L14 \/ L15
    \/ L17 \/ L18 \/ L19 \/ L21 \/ L22 \/ L23

Next == Step \/ Fail \/ ClockAdvance \/ ClockSetBack \/ DeviceComplete

Spec == Init /\ [][Next]_vars

\* the interpreter runs one thread to completion: a statement that can
\* execute eventually does
FairSpec == Spec /\ WF_vars(Step)

(* ======================= properties ======================= *)
Texts == [k \in 1..Len(output) |-> output[k].text]
CountLines(text) == Cardinality({k \in DOMAIN output : output[k].text = text})
IsPrefix(p, q) == Len(p) <= Len(q) /\ SubSeq(q, 1, Len(p)) = p
Warmups == IF warmpup THEN WarmupIters ELSE 0
Allocated == /\ TENSOR_A_CPU # None /\ TENSOR_B_CPU # None
             /\ TENSOR_A_MPS # None /\ TENSOR_B_MPS # None

\* C1: the two output paths exclude each other.  With the accelerator
\* available the "not found" line is never printed, no duration line is
\* printed twice, and a completed run has printed exactly one CPU and exactly
\* one MPS duration line; without it nothing but the "not found" line is ever
\* printed and a completed run has printed exactly that line.
C1_ExclusivePaths ==
    /\ available =>
         /\ CountLines(NotFoundLine.text) = 0
         /\ CountLines(CPULabel) <= 1 /\ CountLines(MPSLabel) <= 1
         /\ pc = "done" => CountLines(CPULabel) = 1 /\ CountLines(MPSLabel) = 1
    /\ ~available =>
         /\ IsPrefix(output, <<NotFoundLine>>)
         /\ pc = "done" => output = <<NotFoundLine>>

C1_Witness ==
    /\ pc = "done" /\ available /\ warmpup
    /\ CountLines(CPULabel) = 1 /\ CountLines(MPSLabel) = 1

FiveLines == <<FoundLine.text, DeviceLine("mps").text, BenchLine.text,
               CPULabel, MPSLabel>>

\* C2 as stated: with the accelerator available and warm-up disabled the
\* completed output has four lines, which are the found message, the device
\* line, "Benchmarking...", the CPU line and the MPS line in that order.
C2_FourLines ==
    (pc = "done" /\ available /\ ~warmpup) =>
        Len(output) = 4 /\ IsPrefix(Texts, FiveLines)

\* C2 as amended: with the accelerator available and warm-up disabled the
\* output is at every moment a prefix of the five lines found, device,
\* "Benchmarking...", CPU, MPS, and a completed run has printed all five.
C2_FiveLinesInOrder ==
    (available /\ ~warmpup) =>
        /\ IsPrefix(Texts, FiveLines)
        /\ pc = "done" => Texts = FiveLines

C2_Witness ==
    /\ pc = "done" /\ available /\ ~warmpup /\ Len(output) = 5
    /\ output[4].text = CPULabel /\ output[5].text = MPSLabel

\* C3: when the first timed multiplication is about to start (line 18), the
\* accelerator pair holds the same size*size values as the host pair; each
\* pair is drawn right after a seeding with 1234, so the generator is at the
\* start of the same stream when line 5 and when line 9 draw.
C3_SeedReproducible ==
    /\ pc \in {"L5", "L9"} => gen = ManualSeed(SEED)
    /\ pc = "L18" =>
         /\ TENSOR_A_MPS.data = TENSOR_A_CPU.data
         /\ TENSOR_B_MPS.data = TENSOR_B_CPU.data
         /\ Len(TENSOR_A_CPU.data) = size * size
         /\ Len(TENSOR_B_CPU.data) = size * size
         /\ TENSOR_A_CPU.device = "cpu" /\ TENSOR_B_CPU.device = "cpu"
         /\ TENSOR_A_MPS.device = "mps" /\ TENSOR_B_MPS.device = "mps"

C3_Witness ==
    /\ pc = "L18" /\ size > 1 /\ warmpup /\ count.warm = WarmupIters
    /\ TENSOR_A_MPS.data = TENSOR_A_CPU.data
    /\ TENSOR_A_CPU.data # TENSOR_B_CPU.data

\* C4: without the accelerator benchmark_mps is never entered: control only
\* visits lines 26 and 33, nothing is seeded, drawn, transferred, multiplied
\* or timed, nothing is queued on the device, and the only output is the
\* single "not found" line.
C4_NoMeasurementWhenAbsent ==
    ~available =>
        /\ pc \in {"L26", "L33", "done"}
        /\ count = [seed |-> 0, rand |-> 0, to |-> 0, warm |-> 0,
                    time |-> 0, mm_cpu |-> 0, mm_mps |-> 0]
        /\ gen = [seed |-> 0, offset |-> 0]
        /\ ~Allocated /\ TENSOR_A_CPU = None /\ TENSOR_B_CPU = None
        /\ TENSOR_A_MPS = None /\ TENSOR_B_MPS = None
        /\ mpsQueue = <<>>
        /\ failedAt = "none"
        /\ pc = "done" <=> output = <<NotFoundLine>>
        /\ pc # "done" => output = <<>>

C4_Witness == ~available /\ pc = "done" /\ output = <<NotFoundLine>> /\ count.time = 0

\* C5: every printed duration is non-negative.
C5_NonNegativeDurations ==
    \A k \in DOMAIN output : output[k].secs # <<>> => output[k].secs[1] >= 0

\* C6: with the accelerator available, for either value of the warm-up flag,
\* the run eventually either fails or completes having printed one CPU and
\* one MPS duration line.
C6_Completes ==
    available =>
        <>(\/ pc = "crashed"
           \/ pc = "done" /\ CountLines(CPULabel) = 1 /\ CountLines(MPSLabel) = 1)

C6_Witness ==
    /\ pc = "done" /\ available /\ ~warmpup /\ count.warm = 0
    /\ CountLines(CPULabel) = 1 /\ CountLines(MPSLabel) = 1
    /\ failedAt = "none"

FailedState ==
    failedAt # "none" =>
        /\ pc = "crashed"
        /\ failedAt \in {"L5", "L6", "L9", "L10", "L15", "L18"} =>
               CountLines(CPULabel) = 0 /\ CountLines(MPSLabel) = 0
        /\ failedAt = "L22" =>
               CountLines(CPULabel) = 1 /\ CountLines(MPSLabel) = 0

\* C7: a failing statement ends the process there.  Once a statement has
\* failed the process is in its crashed state, with no duration line if the
\* failure was in allocation, warm-up or the host multiplication and with
\* only the CPU line if it was in the accelerator multiplication; and from
\* the crashed state no statement runs again: control, output, generator,
\* matrices and operation counts never change.
C7_FailureIsFatal ==
    [][/\ FailedState'
       /\ pc = "crashed" =>
            UNCHANGED <<pc, output, gen, tensors, i, start_time, mps_device,
                        count, window, failedAt>>]_vars

C7_Witness ==
    /\ pc = "crashed" /\ failedAt = "L22"
    /\ CountLines(CPULabel) = 1 /\ CountLines(MPSLabel) = 0

WarmupState ==
    /\ count.warm <= Warmups
    /\ count.warm > 0 => Allocated
    /\ count.time > 0 => count.warm = Warmups
    /\ Allocated =>
         /\ count.rand = 4 + 2 * count.warm
         /\ gen.offset = 2 * size * size
                         + count.warm * 2 * WarmupDim * WarmupDim

\* C8: the number of warm-up multiplications is 100 if the flag is set and 0
\* if not; all of them happen after the four matrices are allocated and
\* before the first timestamp is read; each draws two new 500x500 matrices;
\* and no warm-up statement changes any of the four benchmark matrices.
C8_WarmupCount ==
    [][/\ WarmupState'
       /\ pc \in {"L13", "L14", "L15"} => UNCHANGED tensors]_vars

C8_Witness ==
    /\ pc = "L17" /\ warmpup /\ count.warm = WarmupIters /\ Allocated
    /\ count.time = 0

TimingState ==
    /\ window.ops \in {<<>>, <<"matmul_cpu">>, <<"matmul_mps">>}
    /\ pc \in {"L19", "L21"} => window.ops = <<"matmul_cpu">>
    /\ pc = "L23" => window.ops = <<"matmul_mps">>
    /\ (pc = "done" /\ available) => window.ops = <<"matmul_mps">>
    /\ count.time > 0 =>
         /\ Allocated
         /\ count.seed = 2
         /\ count.rand = 4 + 2 * Warmups
         /\ count.to = 2 + 2 * Warmups
         /\ count.warm = Warmups
         /\ count.mm_cpu <= 1 /\ count.mm_mps <= 1

\* C9: between a start-timestamp read and the matching end read the only
\* operation is that measurement's one multiplication; once a timestamp has
\* been read both seedings, all four allocations, both transfers and every
\* warm-up iteration are already done and never happen again; and no
\* statement from line 17 on changes any of the four matrices.
C9_TimingCoversOnlyMultiply ==
    [][/\ TimingState'
       /\ count.time > 0 => UNCHANGED tensors]_vars

C9_Witness ==
    /\ pc = "done" /\ available /\ warmpup
    /\ window.ops = <<"matmul_mps">> /\ count.time = 4

\* C10: no statement of the script waits for the accelerator: whatever is
\* still queued on the device, the statement the script is at can execute.
C10_NoSynchronization ==
    pc \notin {"done", "crashed"} => ENABLED Step

\* the MPS duration has been printed and the script has finished while the
\* timed multiplication is still queued on the device
C10_Witness ==
    /\ pc = "done" /\ CountLines(MPSLabel) = 1
    /\ mpsQueue # <<>> /\ mpsQueue[Len(mpsQueue)] = "bench"

====
